---- MODULE Spec2Model ----
(***************************************************************************)
(* Model of pyvideokit.ffmpeg_utils.run_ffmpeg_with_progress: the monitor  *)
(* that spawns an encoder, reads its progress stream line by line, turns   *)
(* out_time_ms samples into throttled notification updates, waits for the  *)
(* process and reports its exit status.                                    *)
(*                                                                         *)
(* Python floats are modelled as exact rationals [n, d] in lowest terms    *)
(* with d > 0; the values the model draws are far from the precision       *)
(* limits of a double.                                                     *)
(***************************************************************************)
EXTENDS Integers, Sequences, FiniteSets, TLC

\* ---------------------------------------------------------------- bounds
\* most lines a free-running encoder writes in one run
MaxLines == 4
\* lines the stdout pipe holds before the encoder blocks on write
PipeCap == 1

\* ------------------------------------------------------ optional values
None == <<>>
Some(x) == <<x>>
IsNone(o) == Len(o) = 0
Get(o) == o[1]

\* ------------------------------------------------- rationals for floats
Abs(x) == IF x < 0 THEN -x ELSE x

RECURSIVE GCD(_, _)
GCD(a, b) == IF b = 0 THEN a ELSE GCD(b, a % b)

Rat(n, d) ==
    LET g == GCD(Abs(n), Abs(d))
        s == IF d < 0 THEN -1 ELSE 1
    IN  [n |-> s * (n \div g), d |-> s * (d \div g)]

RInt(i) == [n |-> i, d |-> 1]
RMul(x, y) ==
    LET g1 == GCD(Abs(x.n), y.d)
        g2 == GCD(Abs(y.n), x.d)
    IN  Rat((x.n \div g1) * (y.n \div g2), (x.d \div g2) * (y.d \div g1))
RDiv(x, y) == RMul(x, Rat(y.d, y.n))
RSub(x, y) == Rat(x.n * y.d - y.n * x.d, x.d * y.d)
RLeq(x, y) == x.n * y.d <= y.n * x.d
RGeq(x, y) == RLeq(y, x)
RLt(x, y) == ~RLeq(y, x)
RMin(x, y) == IF RLeq(x, y) THEN x ELSE y
\* Python's float %: the result takes the sign of the (positive) divisor
RMod(x, m) == Rat(x.n % (m * x.d), x.d)

\* ------------------------------------------------------- progress lines
\* A line of the encoder's combined output, already stripped: the text
\* before the first "=" and the characters after it.  A blank line has an
\* empty key.
Line(k, v) == [key |-> k, val |-> v]

Digits == {"0", "1", "2", "3", "4", "5", "6", "7", "8", "9"}
DigitVal(c) ==
    CASE c = "0" -> 0 [] c = "1" -> 1 [] c = "2" -> 2 [] c = "3" -> 3
      [] c = "4" -> 4 [] c = "5" -> 5 [] c = "6" -> 6 [] c = "7" -> 7
      [] c = "8" -> 8 [] c = "9" -> 9

RECURSIVE DigitsValue(_, _)
DigitsValue(s, acc) ==
    IF s = <<>> THEN acc ELSE DigitsValue(Tail(s), 10 * acc + DigitVal(Head(s)))

\* ParseInt reading a text without digits as 0 instead of raising
ParseIntLenient(s) ==
    LET signed == s # <<>> /\ Head(s) \in {"+", "-"}
        body == IF signed THEN Tail(s) ELSE s
    IN  IF body = <<>> \/ \E i \in 1..Len(body) : body[i] \notin Digits
        THEN Some(0)
        ELSE Some(IF signed /\ Head(s) = "-" THEN -DigitsValue(body, 0)
                                              ELSE DigitsValue(body, 0))

\* int(text): an optional sign followed by one or more digits; anything
\* else raises ValueError, modelled as None.
ParseInt(s) ==
    LET signed == s # <<>> /\ Head(s) \in {"+", "-"}
        body == IF signed THEN Tail(s) ELSE s
    IN  IF body = <<>> \/ \E i \in 1..Len(body) : body[i] \notin Digits
        THEN None
        ELSE Some(IF signed /\ Head(s) = "-" THEN -DigitsValue(body, 0)
                                              ELSE DigitsValue(body, 0))

StartsWith(s, p) == Len(s) >= Len(p) /\ SubSeq(s, 1, Len(p)) = p

IsBlank(line) == line.key = ""
IsOutTime(line) == line.key = "out_time_ms"
\* IsProgressEnd of a loop that has no branch for the end marker
IsProgressEndNever(line) == FALSE

IsProgressEnd(line) == line.key = "progress" /\ StartsWith(line.val, <<"e", "n", "d">>)

\* ------------------------------------------------ percentage derivation
\* ms / 1_000_000.0
OutTimeSec(ms) == RDiv(RInt(ms), RInt(1000000))

\* ComputePct without the cap at 100
ComputePctNoCap(ms, duration) ==
    IF RLt(RInt(0), duration)
    THEN RMul(RDiv(OutTimeSec(ms), duration), RInt(100))
    ELSE RMul(RMod(OutTimeSec(ms), 10), RInt(10))

\* the percent of one sample: the share of a known duration, capped at
\* 100, or the ten-second fallback cycle when the duration is unknown
ComputePct(ms, duration) ==
    IF RLt(RInt(0), duration)
    THEN RMin(RInt(100), RMul(RDiv(OutTimeSec(ms), duration), RInt(100)))
    ELSE RMin(RInt(100), RMul(RMod(OutTimeSec(ms), 10), RInt(10)))

\* a last_pct that starts at 0
InitialLastPctZero == RInt(0)

\* last_pct before any update
InitialLastPct == RInt(-1)

\* ShouldUpdate asking for more than one point of advance
ShouldUpdateStrict(pct, last_pct) ==
    RLt(RInt(1), RSub(pct, last_pct)) \/ RGeq(pct, RInt(100))

\* the throttle: at least one point of advance, or completion
ShouldUpdate(pct, last_pct) ==
    RGeq(RSub(pct, last_pct), RInt(1)) \/ RGeq(pct, RInt(100))

\* f"{pct:0.1f}" as a number of tenths, rounded to nearest, ties to even
FormatTenths(pct) ==
    LET num == 10 * pct.n
        q == num \div pct.d
        r == num % pct.d
    IN  IF 2 * r > pct.d THEN q + 1
        ELSE IF 2 * r < pct.d THEN q
        ELSE IF q % 2 = 0 THEN q ELSE q + 1

\* --------------------------------------------------------- the notifier
\* What one dunstify call meets: the tool is not installed, it works, or
\* it fails (any exception is swallowed).
NotifierOutcomes == {"absent", "ok", "error"}

\* send_dunst_notification: the id it returns
SendResult(replaces_id, outcome, fresh) ==
    IF outcome = "absent" THEN None
    ELSE IF outcome = "ok"
         THEN (IF IsNone(replaces_id) THEN Some(fresh) ELSE replaces_id)
         ELSE replaces_id

\* the persistent (timeout 0) notifications on screen after a send
SendShown(before, replaces_id, outcome, fresh, timeout_ms) ==
    IF outcome = "ok" /\ timeout_ms = 0
    THEN before \cup {IF IsNone(replaces_id) THEN fresh ELSE Get(replaces_id)}
    ELSE before

\* the next unused backend id after a send
SendFresh(replaces_id, outcome, fresh) ==
    IF outcome = "ok" /\ IsNone(replaces_id) THEN fresh + 1 ELSE fresh

\* close_dunst_notification: the notifications left on screen
CloseShown(before, notif_id, outcome) ==
    IF IsNone(notif_id) \/ outcome # "ok" THEN before
    ELSE before \ {Get(notif_id)}

\* ------------------------------------------------------- trace entries
\* One entry per notifier call or process call of the monitor, in program
\* order.  num is the percent text in tenths (open, replace), the exit
\* status (wait, failure notification of a finished process) or -1; at is
\* the ms of the sample an update was made for.
Event(e, st, n) == [ev |-> e, style |-> st, num |-> n, at |-> None]

EvOpen == Event("open", "progress", FormatTenths(RInt(0)))
EvReplace(m, p) == [Event("replace", "progress", FormatTenths(p)) EXCEPT !.at = Some(m)]
EvClose == Event("close", "none", -1)
EvPopen == Event("popen", "none", -1)
EvWait(rc) == Event("wait", "none", rc)
EvNotFound == Event("final", "failure", -1)

\* FinalNotification without the exit status in the body
FinalNotificationNoCode(rc) ==
    IF rc = 0 THEN Event("final", "success", -1)
    ELSE Event("final", "failure", -1)

\* the terminal notification of a finished process
FinalNotification(rc) ==
    IF rc = 0 THEN Event("final", "success", -1)
    ELSE Event("final", "failure", rc)

\* the line printed on stderr for a finished process
StderrReport(rc) == IF rc = 0 THEN <<>> ELSE <<rc>>

\* WaitStatus reporting every failure as 1
WaitStatusCollapsed(code) == IF code = 0 THEN 0 ELSE 1

\* proc.wait(): the exit status of the process
WaitStatus(code) == code

\* ------------------------------------------------------------- inputs
\* the texts an out_time_ms line carries in the free-running model
MsTexts ==
    { <<"-", "5", "0", "0", "0", "0", "0">>,
      <<"0">>,
      <<"5", "0", "0", "0", "0">>,
      <<"1", "2", "0", "0", "0", "0">>,
      <<"9", "9", "9", "6", "0", "0", "0">>,
      <<"1", "2", "5", "0", "0", "0", "0", "0">> }

\* the lines a free-running encoder may write
Lines ==
    { Line("out_time_ms", t) : t \in MsTexts }
      \cup { Line("out_time_ms", <<"a", "b", "c">>),
             Line("progress", <<"c", "o", "n", "t", "i", "n", "u", "e">>),
             Line("progress", <<"e", "n", "d">>),
             Line("", <<>>) }

\* total durations handed to the monitor, in seconds; 0 is "unknown"
Durations == {RInt(0), RInt(10), Rat(5, 2)}

\* exit statuses of the encoder
ExitCodes == {0, 1, 2}

\* what subprocess.Popen does with the command
PopenOutcomes == {"ok", "FileNotFoundError", "PermissionError"}

\* ---------------------------------------------------------- the command
\* the flags that make the encoder report progress on its stdout
ProgressFlags == <<"-progress", "pipe:1", "-nostats", "-loglevel", "error">>

\* x in s, for a list s
Contains(s, x) == \E i \in 1..Len(s) : s[i] = x

\* FullCmd putting the flags after the arguments of the caller
FullCmdAppended(c) ==
    IF ~Contains(c, "-progress") THEN c \o ProgressFlags ELSE c

\* lines 205-213: the command that is launched
FullCmd(c) ==
    LET base_cmd == SubSeq(c, 1, 1)
        rest_cmd == SubSeq(c, 2, Len(c))
    IN  IF ~Contains(c, "-progress")
        THEN base_cmd \o ProgressFlags \o rest_cmd
        ELSE c

\* the command of a call whose command is not looked at
DefaultCmd == <<"ffmpeg", "-i", "in.mp4", "out.mp4">>

\* -------------------------------------------------------------- state
VARIABLES
    pc,        \* where the monitor is: off (not called yet), idle, read, wait,
               \* done, raised
    duration,  \* the duration argument
    child,     \* the encoder process: none, running, exited
    exitCode,  \* its exit status once it has exited
    script,    \* the lines a scripted encoder has yet to write
    toWrite,   \* how many lines the encoder has yet to write
    pipe,      \* lines written to stdout and not yet read
    last_pct,  \* the percent of the last update
    notif_id,  \* the handle of the in-progress notification
    ms,        \* the local ms of the last parsed sample
    pct,       \* the local pct of the last parsed sample
    trace,     \* notifier and process calls made so far
    stderr,    \* exit statuses reported on stderr
    ret,       \* the value returned
    shown,     \* persistent notifications on screen
    fresh,     \* the next id the notification backend hands out
    closeOutcome, \* what the notifier did with the close call of the monitor
    cmd,       \* the cmd argument
    full_cmd,  \* the command handed to Popen
    tool,      \* the program that calls the monitor, "none" for a bare call
    stage,     \* the step of the calling program
    files,     \* the temporary files of the calling program on disk
    progExit,  \* the exit code of the calling program once it has ended
    printed,   \* the success lines the calling program has printed
    rcs,       \* the values the monitor returned to the calling program
    args,      \* the command line of trim_video
    trim       \* the locals of trim_video.main once the times are read

vars == <<pc, duration, child, exitCode, script, toWrite, pipe, last_pct,
          notif_id, ms, pct, trace, stderr, ret, shown, fresh, closeOutcome,
          cmd, full_cmd, tool, stage, files, progExit, printed, rcs,
          args, trim>>

\* the variables of the calling program
caller == <<tool, stage, files, progExit, printed, rcs, args, trim>>

\* the monitor before the call, for a given command, duration and encoder
StartCmd(c, d, sc, n) ==
    /\ pc = "idle"
    /\ cmd = c
    /\ full_cmd = None
    /\ closeOutcome = None
    /\ duration = d
    /\ child = "none"
    /\ exitCode = None
    /\ script = sc
    /\ toWrite = n
    /\ pipe = <<>>
    /\ last_pct = InitialLastPct
    /\ notif_id = None
    /\ ms = None
    /\ pct = None
    /\ trace = <<>>
    /\ stderr = <<>>
    /\ ret = None
    /\ shown = {}
    /\ fresh = 1

\* a bare call of the monitor: no calling program
NoCaller ==
    /\ tool = "none"
    /\ stage = "none"
    /\ files = {}
    /\ progExit = None
    /\ printed = {}
    /\ rcs = <<>>
    /\ args = None
    /\ trim = None

\* the state before a bare call, for a given encoder and duration
Start(d, sc, n) == StartCmd(DefaultCmd, d, sc, n) /\ NoCaller

Init == \E d \in Durations, n \in 0..MaxLines : Start(d, <<>>, n)

\* ------------------------------------------------------------ actions
\* lines 215-225 and 231: the first notification, a successful Popen
LaunchOk ==
    /\ pc = "idle"
    /\ \E o \in NotifierOutcomes :
        /\ notif_id' = SendResult(None, o, fresh)
        /\ shown' = SendShown(shown, None, o, fresh, 0)
        /\ fresh' = SendFresh(None, o, fresh)
    /\ full_cmd' = Some(FullCmd(cmd))
    /\ trace' = <<EvOpen, EvPopen>>
    /\ child' = "running"
    /\ last_pct' = InitialLastPct
    /\ pc' = "read"
    /\ UNCHANGED <<duration, exitCode, script, toWrite, pipe, ms, pct, stderr, ret,
                   closeOutcome, cmd, caller>>

\* lines 215-229: Popen raises FileNotFoundError
LaunchNotFound ==
    /\ pc = "idle"
    /\ \E o1 \in NotifierOutcomes, o2 \in NotifierOutcomes, o3 \in NotifierOutcomes :
        LET id1 == SendResult(None, o1, fresh)
            shown1 == SendShown(shown, None, o1, fresh, 0)
            fresh1 == SendFresh(None, o1, fresh)
            shown2 == CloseShown(shown1, id1, o2)
        IN  /\ notif_id' = id1
            /\ shown' = SendShown(shown2, None, o3, fresh1, 4000)
            /\ fresh' = SendFresh(None, o3, fresh1)
            /\ closeOutcome' = Some(o2)
    /\ full_cmd' = Some(FullCmd(cmd))
    /\ trace' = <<EvOpen, EvClose, EvNotFound>>
    /\ ret' = Some(1)
    /\ pc' = "done"
    /\ UNCHANGED <<duration, child, exitCode, script, toWrite, pipe, last_pct,
                   ms, pct, stderr, cmd, caller>>

\* lines 215-226: Popen raises an OSError that is not FileNotFoundError
\* (a file without execute permission, a directory); nothing catches it
LaunchRaises ==
    /\ pc = "idle"
    /\ \E o \in NotifierOutcomes :
        /\ notif_id' = SendResult(None, o, fresh)
        /\ shown' = SendShown(shown, None, o, fresh, 0)
        /\ fresh' = SendFresh(None, o, fresh)
    /\ full_cmd' = Some(FullCmd(cmd))
    /\ trace' = <<EvOpen>>
    /\ pc' = "raised"
    /\ UNCHANGED <<duration, child, exitCode, script, toWrite, pipe, last_pct,
                   ms, pct, stderr, ret, closeOutcome, cmd, caller>>

\* ReadLine leaving the loop when an update finds no notifier
ReadLineNeedsNotifier ==
    /\ pc = "read"
    /\ pipe # <<>>
    /\ pipe' = Tail(pipe)
    /\ LET line == Head(pipe)
           parsed == ParseInt(line.val)
       IN  IF IsBlank(line)
           THEN UNCHANGED <<pc, last_pct, notif_id, ms, pct, trace, shown, fresh>>
           ELSE IF IsOutTime(line)
           THEN IF IsNone(parsed)
                THEN UNCHANGED <<pc, last_pct, notif_id, ms, pct, trace, shown, fresh>>
                ELSE LET p == ComputePct(Get(parsed), duration)
                     IN  /\ ms' = parsed
                         /\ pct' = Some(p)
                         /\ IF ShouldUpdate(p, last_pct)
                            THEN /\ last_pct' = p
                                 /\ trace' = Append(trace, EvReplace(Get(parsed), p))
                                 /\ \E o \in NotifierOutcomes :
                                     /\ notif_id' = SendResult(notif_id, o, fresh)
                                     /\ shown' = SendShown(shown, notif_id, o, fresh, 0)
                                     /\ fresh' = SendFresh(notif_id, o, fresh)
                                     /\ pc' = IF o = "absent" THEN "wait" ELSE pc
                            ELSE UNCHANGED <<pc, last_pct, notif_id, trace, shown, fresh>>
           ELSE IF IsProgressEnd(line)
           THEN /\ pc' = "wait"
                /\ UNCHANGED <<last_pct, notif_id, ms, pct, trace, shown, fresh>>
           ELSE UNCHANGED <<pc, last_pct, notif_id, ms, pct, trace, shown, fresh>>
    /\ UNCHANGED <<duration, child, exitCode, script, toWrite, stderr, ret,
                   closeOutcome, cmd, full_cmd, caller>>

\* lines 234-266: one iteration of the read loop
ReadLine ==
    /\ pc = "read"
    /\ pipe # <<>>
    /\ pipe' = Tail(pipe)
    /\ LET line == Head(pipe)
           parsed == ParseInt(line.val)
       IN  IF IsBlank(line)
           THEN UNCHANGED <<pc, last_pct, notif_id, ms, pct, trace, shown, fresh>>
           ELSE IF IsOutTime(line)
           THEN IF IsNone(parsed)
                THEN UNCHANGED <<pc, last_pct, notif_id, ms, pct, trace, shown, fresh>>
                ELSE LET p == ComputePct(Get(parsed), duration)
                     IN  /\ ms' = parsed
                         /\ pct' = Some(p)
                         /\ pc' = pc
                         /\ IF ShouldUpdate(p, last_pct)
                            THEN /\ last_pct' = p
                                 /\ trace' = Append(trace, EvReplace(Get(parsed), p))
                                 /\ \E o \in NotifierOutcomes :
                                     /\ notif_id' = SendResult(notif_id, o, fresh)
                                     /\ shown' = SendShown(shown, notif_id, o, fresh, 0)
                                     /\ fresh' = SendFresh(notif_id, o, fresh)
                            ELSE UNCHANGED <<last_pct, notif_id, trace, shown, fresh>>
           ELSE IF IsProgressEnd(line)
           THEN /\ pc' = "wait"
                /\ UNCHANGED <<last_pct, notif_id, ms, pct, trace, shown, fresh>>
           ELSE UNCHANGED <<pc, last_pct, notif_id, ms, pct, trace, shown, fresh>>
    /\ UNCHANGED <<duration, child, exitCode, script, toWrite, stderr, ret,
                   closeOutcome, cmd, full_cmd, caller>>

\* line 234: the stream ends, the loop is left
ReadEOF ==
    /\ pc = "read"
    /\ pipe = <<>>
    /\ child = "exited"
    /\ pc' = "wait"
    /\ UNCHANGED <<duration, child, exitCode, script, toWrite, pipe, last_pct,
                   notif_id, ms, pct, trace, stderr, ret, shown, fresh,
                   closeOutcome, cmd, full_cmd, caller>>

\* lines 268-285: wait for the process, close, final notification, return
WaitExit ==
    /\ pc = "wait"
    /\ child = "exited"
    /\ LET rc == WaitStatus(Get(exitCode))
       IN  /\ trace' = trace \o <<EvWait(rc), EvClose, FinalNotification(rc)>>
           /\ stderr' = stderr \o StderrReport(rc)
           /\ ret' = Some(rc)
           /\ \E o2 \in NotifierOutcomes, o3 \in NotifierOutcomes :
               LET shown2 == CloseShown(shown, notif_id, o2)
               IN  /\ shown' = SendShown(shown2, None, o3, fresh, IF rc = 0 THEN 2000 ELSE 4000)
                   /\ fresh' = SendFresh(None, o3, fresh)
                   /\ closeOutcome' = Some(o2)
    /\ pc' = "done"
    /\ UNCHANGED <<duration, child, exitCode, script, toWrite, pipe, last_pct,
                   notif_id, ms, pct, cmd, full_cmd, caller>>

\* the encoder writes its next line; it blocks while the pipe is full
ChildWrite ==
    /\ child = "running"
    /\ toWrite > 0
    /\ Len(pipe) < PipeCap
    /\ \E l \in (IF script = <<>> THEN Lines ELSE {Head(script)}) :
        pipe' = Append(pipe, l)
    /\ script' = IF script = <<>> THEN script ELSE Tail(script)
    /\ toWrite' = toWrite - 1
    /\ UNCHANGED <<pc, duration, child, exitCode, last_pct, notif_id, ms, pct,
                   trace, stderr, ret, shown, fresh, closeOutcome, cmd, full_cmd,
                   caller>>

\* the encoder has written everything and exits
ChildExit ==
    /\ child = "running"
    /\ toWrite = 0
    /\ \E c \in ExitCodes : exitCode' = Some(c)
    /\ child' = "exited"
    /\ UNCHANGED <<pc, duration, script, toWrite, pipe, last_pct, notif_id,
                   ms, pct, trace, stderr, ret, shown, fresh, closeOutcome, cmd,
                   full_cmd, caller>>

Next ==
    \/ LaunchOk
    \/ LaunchNotFound
    \/ LaunchRaises
    \/ ReadLine
    \/ ReadEOF
    \/ WaitExit
    \/ ChildWrite
    \/ ChildExit

Spec == Init /\ [][Next]_vars

TypeOK ==
    /\ pc \in {"off", "idle", "read", "wait", "done", "raised"}
    /\ child \in {"none", "running", "exited"}
    /\ Len(pipe) <= PipeCap

\* ---------------------------------------------------- scripted encoders
\* out_time_ms lines for the percents 0, 0.4, 1.2, 1.9, 3.0 of ten seconds
ScriptC6 ==
    << Line("out_time_ms", <<"0">>),
       Line("out_time_ms", <<"4", "0", "0", "0", "0">>),
       Line("out_time_ms", <<"1", "2", "0", "0", "0", "0">>),
       Line("out_time_ms", <<"1", "9", "0", "0", "0", "0">>),
       Line("out_time_ms", <<"3", "0", "0", "0", "0", "0">>) >>

DurationC6 == RInt(10)

InitC6 == Start(DurationC6, ScriptC6, Len(ScriptC6))

SpecC6 == InitC6 /\ [][Next]_vars

\* elapsed time advancing by 2.5 s per line through two ten-second cycles
ScriptC10 ==
    << Line("out_time_ms", <<"0">>),
       Line("out_time_ms", <<"2", "5", "0", "0", "0", "0", "0">>),
       Line("out_time_ms", <<"5", "0", "0", "0", "0", "0", "0">>),
       Line("out_time_ms", <<"7", "5", "0", "0", "0", "0", "0">>),
       Line("out_time_ms", <<"1", "0", "0", "0", "0", "0", "0", "0">>),
       Line("out_time_ms", <<"1", "2", "5", "0", "0", "0", "0", "0">>),
       Line("out_time_ms", <<"1", "5", "0", "0", "0", "0", "0", "0">>),
       Line("out_time_ms", <<"1", "7", "5", "0", "0", "0", "0", "0">>) >>

InitC10 == Start(RInt(0), ScriptC10, Len(ScriptC10))

SpecC10 == InitC10 /\ [][Next]_vars

\* ------------------------------------------------------ derived values
Updates == SelectSeq(trace, LAMBDA e : e.ev = "replace")
Finals == SelectSeq(trace, LAMBDA e : e.ev = "final")
Count(kind) == Len(SelectSeq(trace, LAMBDA e : e.ev = kind))
UpdateTexts == [i \in 1..Len(Updates) |-> Updates[i].num]
Spawned == child # "none"
Returned == pc = "done"
\* the monitor consumed the whole stream and returned
ReadToEnd == Returned /\ child = "exited" /\ pipe = <<>> /\ toWrite = 0

\* ------------------------------------------------------------- claims

\* C1: once the process has been spawned, the value returned is exactly
\* the exit status of the process (0 iff it exited 0), whatever lines it
\* wrote; a run in which no sample was ever parsed makes zero updates.
C1_ReturnsExitStatus ==
    (Returned /\ Spawned) =>
        /\ ret = exitCode
        /\ (Get(ret) = 0 <=> Get(exitCode) = 0)
        /\ (IsNone(ms) => Len(Updates) = 0)

\* a process that wrote nothing exited with 2 and 2 was returned
C1_Witness ==
    /\ Returned
    /\ exitCode = Some(2)
    /\ ret = Some(2)
    /\ IsNone(ms)
    /\ Len(Updates) = 0
    /\ Count("wait") = 1

\* C2: when the executable cannot be located or started, the call
\* returns 1 without raising, no process exists, nothing is read, the
\* in-progress notification is closed and exactly one failure
\* notification is sent.
C2_LaunchFailureReturnsOne ==
    (pc # "idle" /\ ~Spawned) =>
        /\ Returned
        /\ ret = Some(1)
        /\ IsNone(ms)
        /\ Count("popen") = 0
        /\ trace = <<EvOpen, EvClose, EvNotFound>>

\* C3: the calls of one run come in the order open, process start,
\* updates, wait, close, final; a finished run has made exactly one open,
\* one close and one final notification, and the close of a spawned
\* process follows its wait.
EvRank(e) ==
    CASE e.ev = "open" -> 1 [] e.ev = "popen" -> 2 [] e.ev = "replace" -> 3
      [] e.ev = "wait" -> 4 [] e.ev = "close" -> 5 [] e.ev = "final" -> 6

C3_NotifierOrder ==
    /\ \A i \in 1..Len(trace), j \in 1..Len(trace) :
          i < j => EvRank(trace[i]) <= EvRank(trace[j])
    /\ Count("open") <= 1 /\ Count("close") <= 1 /\ Count("final") <= 1
    /\ Count("popen") <= 1 /\ Count("wait") <= 1
    /\ (Count("popen") = 1 => Count("open") = 1)
    /\ (Count("replace") > 0 => Count("popen") = 1)
    /\ (Spawned /\ Count("close") = 1 => Count("wait") = 1 /\ child = "exited")
    /\ (pc \in {"done", "raised"} =>
           Count("open") = 1 /\ Count("close") = 1 /\ Count("final") = 1)

\* C4: after the process exits there is exactly one terminal
\* notification, success-styled iff the exit status is 0 and otherwise
\* failure-styled with the exit status in its body; stderr gets a message
\* iff the status is non-zero, and it carries that status.
C4_TerminalNotification ==
    (Returned /\ Spawned) =>
        /\ Len(Finals) = 1
        /\ trace[Len(trace)] = Finals[1]
        /\ (Finals[1].style = "success" <=> Get(exitCode) = 0)
        /\ (Get(exitCode) # 0 =>
               Finals[1].style = "failure" /\ Finals[1].num = Get(exitCode))
        /\ (Len(stderr) = 1 <=> Get(exitCode) # 0)
        /\ (Get(exitCode) = 0 => stderr = <<>>)
        /\ (Get(exitCode) # 0 => stderr = <<Get(exitCode)>>)

\* a failed encoder: failure notification and stderr line, both with 2
C4_Witness ==
    /\ Returned
    /\ exitCode = Some(2)
    /\ Len(Finals) = 1
    /\ Finals[1] = [ev |-> "final", style |-> "failure", num |-> 2, at |-> None]
    /\ stderr = <<2>>

\* C5: a parsed out_time_ms line makes an update iff its percent is at
\* least 1.0 above last_pct or is at least 100; last_pct is -1 when the
\* loop starts, becomes the percent of a line that makes an update and is
\* left alone by every other line.
C5_ThrottleRule ==
    [][ /\ (pc = "idle" /\ pc' = "read" => last_pct' = RInt(-1))
        /\ (pc = "read" /\ pipe # <<>> /\ pipe' = Tail(pipe) =>
              LET line == Head(pipe)
                  isSample == line.key = "out_time_ms" /\ ~IsNone(ParseInt(line.val))
                  fired == Len(Updates') = Len(Updates) + 1
              IN  IF isSample
                  THEN LET p == Get(pct')
                           due == \/ RGeq(RSub(p, last_pct), RInt(1))
                                  \/ RGeq(p, RInt(100))
                       IN  /\ fired <=> due
                           /\ fired => last_pct' = p
                           /\ ~fired => last_pct' = last_pct /\ trace' = trace
                  ELSE last_pct' = last_pct /\ trace' = trace)
      ]_vars

\* both sides of the rule happened: an update was made for a sample, and
\* a later sample below the threshold was parsed without an update
C5_Witness ==
    /\ pc = "read"
    /\ Len(Updates) = 1
    /\ ~IsNone(pct)
    /\ Get(pct) # last_pct
    /\ RLt(RSub(Get(pct), last_pct), RInt(1))
    /\ RLt(RInt(-1), last_pct)

\* the percents the lines of ScriptC6 stand for
ScriptC6Pcts ==
    [i \in 1..Len(ScriptC6) |->
        ComputePct(Get(ParseInt(ScriptC6[i].val)), DurationC6)]

\* C6 as stated: for the percents 0, 0.4, 1.2, 1.9, 3.0 exactly two
\* updates are made, for 1.2 and for 3.0; the sample at 0 makes none.
C6_TwoUpdates ==
    ReadToEnd => UpdateTexts = <<12, 30>>

\* C6 amended: for the percents 0, 0.4, 1.2, 1.9, 3.0 exactly three
\* updates are made, for 0, for 1.2 and for 3.0 (the sample at 0 is
\* 1.0 above the initial last_pct of -1).
C6_ThreeUpdates ==
    /\ Len(Updates) <= 3
    /\ \A i \in 1..Len(Updates) : Updates[i].num = <<0, 12, 30>>[i]
    /\ (ReadToEnd => UpdateTexts = <<0, 12, 30>>)

\* the five samples were read to the end of the stream
C6_Witness ==
    /\ ReadToEnd
    /\ ScriptC6Pcts = <<RInt(0), Rat(2, 5), Rat(6, 5), Rat(19, 10), RInt(3)>>
    /\ pct = Some(RInt(3))
    /\ last_pct = RInt(3)
    /\ Len(Updates) = 3

\* C7: for m >= 0 and a duration > 0 the percent of a sample is
\* min(100, 100 * (m / 1,000,000) / duration), a value in [0, 100].
C7_PercentFormula ==
    (~IsNone(ms) /\ Get(ms) >= 0 /\ RLt(RInt(0), duration)) =>
        LET share == RDiv(RMul(RInt(100), Rat(Get(ms), 1000000)), duration)
            want == IF RLeq(RInt(100), share) THEN RInt(100) ELSE share
        IN  /\ Get(pct) = want
            /\ RLeq(RInt(0), Get(pct))
            /\ RLeq(Get(pct), RInt(100))

\* a sample past the end of a known duration was capped, and one inside
\* it was not
C7_Witness ==
    /\ RLt(RInt(0), duration)
    /\ ~IsNone(ms)
    /\ Get(ms) > 0
    /\ RLt(Get(pct), RInt(100))
    /\ \E i \in 1..Len(Updates) :
          Updates[i].num = 1000 /\ Get(Updates[i].at) = 12500000

\* C8: the percent of every parsed sample lies in [0, 100], also for a
\* negative out_time_ms; no update shows a percent outside [0, 100] and
\* last_pct stays in [-1, 100].
C8_PercentInRange ==
    /\ (~IsNone(pct) => RLeq(RInt(0), Get(pct)) /\ RLeq(Get(pct), RInt(100)))
    /\ \A i \in 1..Len(Updates) : Updates[i].num >= 0 /\ Updates[i].num <= 1000
    /\ RLeq(RInt(-1), last_pct) /\ RLeq(last_pct, RInt(100))

\* C9: with an unknown duration the percent of a sample at e seconds is
\* min(100, (e mod 10) * 10), lies in [0, 100], and no update reports
\* 100%, neither as its percent nor as its one-decimal text.
C9_NoFalseCompletion ==
    duration = RInt(0) =>
        /\ (~IsNone(ms) =>
              LET e == Rat(Get(ms), 1000000)
                  saw == RMul(RSub(e, RInt(10 * (e.n \div (10 * e.d)))), RInt(10))
              IN  /\ Get(pct) = (IF RLeq(RInt(100), saw) THEN RInt(100) ELSE saw)
                  /\ RLeq(RInt(0), Get(pct))
                  /\ RLeq(Get(pct), RInt(100)))
        /\ RLt(last_pct, RInt(100))
        /\ \A i \in 1..Len(Updates) : Updates[i].num < 1000

\* C10: with an unknown duration and steadily advancing elapsed time,
\* updates are made in every ten-second cycle the stream went through.
C10_UpdatesInEveryCycle ==
    ReadToEnd =>
        \A k \in 0..1 :
            \E i \in 1..Len(Updates) :
                Get(Updates[i].at) \div 10000000 = k

\* ------------------------------------------- more scripted encoders
LineMalformed == Line("out_time_ms", <<"a", "b", "c">>)
LineEnd == Line("progress", <<"e", "n", "d">>)
LinePast == Line("out_time_ms", <<"1", "2", "5", "0", "0", "0", "0", "0">>)

\* malformed lines before and between samples, an unknown key, the end
\* marker and one more sample after it
ScriptMix ==
    << LineMalformed,
       Line("out_time_ms", <<"0">>),
       LineMalformed,
       Line("out_time_ms", <<"1", "2", "0", "0", "0", "0">>),
       Line("progress", <<"c", "o", "n", "t", "i", "n", "u", "e">>),
       LinePast,
       LineEnd,
       LinePast >>

\* the encoder writes all of ScriptMix, or exits before the end marker
InitMix == \E n \in {6, Len(ScriptMix)} : Start(RInt(10), ScriptMix, n)

SpecMix == InitMix /\ [][Next]_vars

\* one sample past the end of the duration, over and over
ScriptC13 == [i \in 1..102 |-> LinePast]

InitC13 == Start(RInt(10), ScriptC13, Len(ScriptC13))

SpecC13 == InitC13 /\ [][Next]_vars


\* a step of the read loop that consumes the line l
Reads(l) == pc = "read" /\ pipe # <<>> /\ Head(pipe) = l /\ pipe' = Tail(pipe)

\* C11: an out_time_ms line whose value is not an integer changes neither
\* last_pct nor the notification handle, makes no update and leaves the
\* loop running; the lines after it are processed and the exit status of
\* the process is returned.
C11_MalformedIgnored ==
    /\ [][ Reads(LineMalformed) =>
             /\ last_pct' = last_pct
             /\ notif_id' = notif_id
             /\ trace' = trace
             /\ shown' = shown
             /\ pc' = "read" ]_vars
    /\ [](Returned /\ Spawned =>
             ret = exitCode /\ UpdateTexts = <<0, 12, 1000>>)

\* the run went through both malformed lines and made the three updates
\* of the samples that followed them
C11_Witness ==
    /\ Returned
    /\ Spawned
    /\ toWrite = 0
    /\ UpdateTexts = <<0, 12, 1000>>
    /\ ret = Some(2)

\* C12: once progress=end has been read the monitor waits for the exit
\* status: it parses no further line and makes no further update, whatever
\* arrives in the pipe.
C12_StopsAtEnd ==
    [][ /\ (Reads(LineEnd) => pc' = "wait" /\ trace' = trace /\ last_pct' = last_pct)
        /\ (pc = "wait" =>
              /\ pc' \in {"wait", "done"}
              /\ ms' = ms /\ pct' = pct /\ last_pct' = last_pct
              /\ notif_id' = notif_id
              /\ Len(Updates') = Len(Updates)
              /\ Len(pipe') >= Len(pipe)
              /\ SubSeq(pipe', 1, Len(pipe)) = pipe)
      ]_vars

\* the run returned while a sample that would have made an update was
\* still unread in the pipe
C12_Witness ==
    /\ Returned
    /\ pipe # <<>>
    /\ IsOutTime(Head(pipe))
    /\ ~IsNone(ParseInt(Head(pipe).val))
    /\ ShouldUpdate(ComputePct(Get(ParseInt(Head(pipe).val)), duration), last_pct)

\* C13: for a known duration the number of updates of one run stays
\* below a fixed bound, however many out_time_ms lines the encoder
\* writes: each update advances last_pct by at least one point from -1
\* to at most 100, which allows 101 updates.
C13_UpdatesBounded ==
    RLt(RInt(0), duration) => Len(Updates) <= 101

\* the monitor can take its next step
MonitorCanStep ==
    \/ pc = "idle"
    \/ pc = "read" /\ (pipe # <<>> \/ child = "exited")
    \/ pc = "wait" /\ child = "exited"

\* the encoder can take its next step
ChildCanStep ==
    child = "running" /\ (toWrite = 0 \/ Len(pipe) < PipeCap)

\* C20: the run ends whenever the encoder would exit once its output has
\* been consumed, also when it writes more than the pipe holds after
\* progress=end: until the call has ended, the monitor or the encoder can
\* always take a step (each step consumes a line, writes one or moves the
\* monitor on, so a run that can always step ends).
C20_NeverStuck ==
    pc \notin {"done", "raised"} => MonitorCanStep \/ ChildCanStep


\* ------------------------------------------------------------------ C14
\* C14: when the call has returned and the notifier served the close call
\* of the finalisation, none of the in-progress notifications this run
\* opened or replaced is left on screen
C14_HandleReleased ==
    (Returned /\ closeOutcome = Some("ok")) => shown = {}

\* ------------------------------------------------------------------ C16
MaxCmdLen == 3

\* the words a command is made of
Tokens == {"ffmpeg", "-progress", "-y", "in.mp4"}

\* the commands a caller may pass
Cmds == UNION { [1..k -> Tokens] : k \in 1..MaxCmdLen }

InitC16 == \E c \in Cmds, n \in 0..1 : StartCmd(c, RInt(10), <<>>, n) /\ NoCaller

SpecC16 == InitC16 /\ [][Next]_vars

\* C16: the launched command is the command of the caller when that
\* holds -progress; otherwise it is the executable, the five progress
\* flags, then the other arguments of the caller in their order
C16_Injection ==
    ~IsNone(full_cmd) =>
        LET f == Get(full_cmd)
        IN  IF \E i \in 1..Len(cmd) : cmd[i] = "-progress"
            THEN f = cmd
            ELSE /\ Len(f) = Len(cmd) + 5
                 /\ f[1] = cmd[1]
                 /\ SubSeq(f, 2, 6) = <<"-progress", "pipe:1", "-nostats", "-loglevel", "error">>
                 /\ \A i \in 2..Len(cmd) : f[i + 5] = cmd[i]

\* a three-word command without -progress has been launched
C16_Witness ==
    /\ Spawned
    /\ ~IsNone(full_cmd)
    /\ cmd = <<"ffmpeg", "-y", "in.mp4">>
    /\ Get(full_cmd) # cmd

\* a command that holds -progress has been launched unchanged
C16_WitnessKept ==
    /\ Spawned
    /\ cmd = <<"ffmpeg", "-progress", "in.mp4">>
    /\ full_cmd = Some(cmd)

\* ------------------------------------------------- the calling programs
MaxToolLines == 1

\* the programs that make one call of the monitor and end
SingleTools ==
    {"trim_video", "fade_video", "convert_to_utvideo", "extract_audio",
     "prepare_youtube", "concat_videos"}

Tools == SingleTools \cup {"apply_vhs_effect"}

\* the list file join_videos writes before the call
ConcatFile == "concat.txt"

\* VHS_FILE and WAV_FILE, the outputs of the video step
VideoStepFiles == {"vhs.avi", "audio.wav"}

\* NOISE, MIX and WAV_FX, the outputs of the three sox commands in order
SoxFiles == <<"noise.wav", "mix.wav", "vhs.wav">>

TempFiles == {ConcatFile} \cup VideoStepFiles \cup {SoxFiles[i] : i \in 1..3}

\* non-zero exit statuses of a sox command
SoxFailures == {2}

\* SysExit reporting every failure as 1
SysExitCollapsed(code) == IF code = 0 THEN 0 ELSE 1

\* sys.exit(code): the exit status the parent of the program sees
SysExit(code) == code % 256

\* the duration argument the programs pass: trim_video and fade_video
\* end before the call unless it is positive, the others pass what
\* probe_duration gives, 0 when it fails
ToolDurations(t) ==
    IF t \in {"trim_video", "fade_video"} THEN {RInt(10)} ELSE {RInt(0), RInt(10)}

\* the variables of one call of the monitor
monitor == <<pc, duration, child, exitCode, script, toWrite, pipe, last_pct,
             notif_id, ms, pct, trace, stderr, ret, closeOutcome, cmd, full_cmd>>

\* the monitor is called again: a new encoder of n lines
Call(c, d, n) ==
    /\ pc' = "idle"
    /\ cmd' = c
    /\ full_cmd' = None
    /\ closeOutcome' = None
    /\ duration' = d
    /\ child' = "none"
    /\ exitCode' = None
    /\ script' = <<>>
    /\ toWrite' = n
    /\ pipe' = <<>>
    /\ last_pct' = InitialLastPct
    /\ notif_id' = None
    /\ ms' = None
    /\ pct' = None
    /\ trace' = <<>>
    /\ ret' = None
    /\ UNCHANGED stderr

\* the monitor has returned to program t, which has not ended
ReturnedTo(t) == tool = t /\ progExit = None /\ pc = "done"

\* the program ends with an exit status, having printed out
Ends(code, out) ==
    /\ progExit' = Some(code)
    /\ printed' = printed \cup out
    /\ rcs' = Append(rcs, Get(ret))
    /\ UNCHANGED <<args, trim, tool, stage, monitor, shown, fresh>>

\* rc != 0: sys.exit(rc), else the success line and the end of main
ExitUnlessOk(rc) ==
    IF rc # 0 THEN Ends(SysExit(rc), {}) ELSE Ends(0, {"completed"})

\* trim_video.py 194-200: sys.exit(rc)
trim_video_main ==
    /\ ReturnedTo("trim_video")
    /\ Ends(SysExit(Get(ret)), {})
    /\ UNCHANGED files

\* fade_video.py 210-216: sys.exit(rc)
fade_video_main ==
    /\ ReturnedTo("fade_video")
    /\ Ends(SysExit(Get(ret)), {})
    /\ UNCHANGED files

\* convert_to_utvideo.py 53-63
convert_to_utvideo ==
    /\ ReturnedTo("convert_to_utvideo")
    /\ ExitUnlessOk(Get(ret))
    /\ UNCHANGED files

\* extract_audio.py 50-60
extract_audio ==
    /\ ReturnedTo("extract_audio")
    /\ ExitUnlessOk(Get(ret))
    /\ UNCHANGED files

\* prepare_youtube.py 66-76
prepare_youtube ==
    /\ ReturnedTo("prepare_youtube")
    /\ ExitUnlessOk(Get(ret))
    /\ UNCHANGED files

\* concat_videos.py 104-126: unlink the list file, return rc, sys.exit
join_videos ==
    /\ ReturnedTo("concat_videos")
    /\ files' = files \ {ConcatFile}
    /\ Ends(SysExit(Get(ret)), {})

\* the monitor raised and no program catches it: the interpreter prints
\* the traceback and the program dies with status 1
UncaughtError ==
    /\ tool # "none"
    /\ progExit = None
    /\ pc = "raised"
    /\ progExit' = Some(1)
    /\ UNCHANGED <<args, trim, tool, stage, files, printed, rcs, monitor, shown, fresh>>

\* apply_vhs_effect.py 111-139: the video step; the result of the monitor
\* is dropped.  A failed encoder may or may not have left its outputs.
step_0_vhs_fx ==
    /\ ReturnedTo("apply_vhs_effect")
    /\ stage = "step0"
    /\ \E left \in (IF \E i \in 1..Len(trace) : trace[i].ev = "popen"
                    THEN (IF ret = Some(0) THEN {VideoStepFiles}
                          ELSE {{}, VideoStepFiles})
                    ELSE {{}}) :
        files' = files \cup left
    /\ rcs' = Append(rcs, Get(ret))
    /\ stage' = "step1"
    /\ UNCHANGED <<args, trim, tool, progExit, printed, monitor, shown, fresh>>

\* apply_vhs_effect.py 142-198: the audio step: a notification, three sox
\* commands through run_command, which ends the program when one fails,
\* then the close and the completion notification; with main 266 and
\* step_2_map_inputs 201-226 up to the call of the monitor
step_1_audio_fx ==
    /\ tool = "apply_vhs_effect"
    /\ progExit = None
    /\ stage = "step1"
    /\ \E o1 \in NotifierOutcomes, k \in 0..3 :
        LET id1 == SendResult(None, o1, fresh)
            shown1 == SendShown(shown, None, o1, fresh, 0)
            fresh1 == SendFresh(None, o1, fresh)
        IN  /\ files' = files \cup {SoxFiles[i] : i \in 1..k}
            /\ IF k < 3
               THEN /\ \E code \in SoxFailures : progExit' = Some(SysExit(code))
                    /\ shown' = shown1
                    /\ fresh' = fresh1
                    /\ UNCHANGED <<stage, monitor>>
               ELSE /\ \E o2 \in NotifierOutcomes, o3 \in NotifierOutcomes :
                        /\ shown' = SendShown(CloseShown(shown1, id1, o2), None, o3, fresh1, 2000)
                        /\ fresh' = SendFresh(None, o3, fresh1)
                    /\ stage' = "step2"
                    /\ \E d \in ToolDurations(tool), n \in 0..MaxToolLines :
                        Call(DefaultCmd, d, n)
                    /\ UNCHANGED progExit
    /\ UNCHANGED <<args, trim, tool, printed, rcs>>

\* apply_vhs_effect.py 226-228: the mux step after the call: the result
\* of the monitor is dropped and the success line is printed
step_2_map_inputs ==
    /\ ReturnedTo("apply_vhs_effect")
    /\ stage = "step2"
    /\ rcs' = Append(rcs, Get(ret))
    /\ printed' = printed \cup {"Final file"}
    /\ stage' = "step3"
    /\ UNCHANGED <<args, trim, tool, files, progExit, monitor, shown, fresh>>

\* apply_vhs_effect.py 231-240 and 267: the five files are unlinked and
\* main ends
step_3_clean ==
    /\ tool = "apply_vhs_effect"
    /\ progExit = None
    /\ stage = "step3"
    /\ files' = files \ (VideoStepFiles \cup {SoxFiles[i] : i \in 1..3})
    /\ progExit' = Some(0)
    /\ UNCHANGED <<args, trim, tool, stage, printed, rcs, monitor, shown, fresh>>

InitTools ==
    \E t \in Tools : \E d \in ToolDurations(t), n \in 0..MaxToolLines :
        /\ StartCmd(DefaultCmd, d, <<>>, n)
        /\ tool = t
        /\ stage = IF t = "apply_vhs_effect" THEN "step0" ELSE "run"
        /\ files = IF t = "concat_videos" THEN {ConcatFile} ELSE {}
        /\ progExit = None
        /\ printed = {}
        /\ rcs = <<>>
        /\ args = None
        /\ trim = None

NextTools ==
    \/ Next
    \/ trim_video_main
    \/ fade_video_main
    \/ convert_to_utvideo
    \/ extract_audio
    \/ prepare_youtube
    \/ join_videos
    \/ UncaughtError
    \/ step_0_vhs_fx
    \/ step_1_audio_fx
    \/ step_2_map_inputs
    \/ step_3_clean

SpecTools == InitTools /\ [][NextTools]_vars

\* the program has ended
Exited == ~IsNone(progExit)

\* ------------------------------------------------------------------ C17
\* C17: when a calling program has ended, in whatever way, none of its
\* temporary files is on disk
C17_TempFilesRemoved == Exited => files \cap TempFiles = {}

\* ------------------------------------------------------------------ C18
\* C18: a single-encoder program ends with the exit status of the encoder
\* it launched, and with 1 when the launch failed
C18_ExitCodePreserved ==
    (tool \in SingleTools /\ Exited) =>
        IF Spawned THEN progExit = exitCode ELSE progExit = Some(1)

\* a program that tests rc has ended with the status 2 of its encoder
C18_Witness ==
    /\ tool = "convert_to_utvideo"
    /\ Spawned
    /\ exitCode = Some(2)
    /\ progExit = Some(2)

\* ------------------------------------------------------------------ C19
\* C19: when the monitor reported a failure to the VHS pipeline, the
\* program ends with that status, in the step that failed, without having
\* printed the success line
C19_FailurePreserved ==
    (tool = "apply_vhs_effect" /\ Exited /\ \E i \in 1..Len(rcs) : rcs[i] # 0) =>
        LET i == CHOOSE j \in 1..Len(rcs) : rcs[j] # 0 /\ \A h \in 1..(j - 1) : rcs[h] = 0
        IN  /\ progExit = Some(rcs[i])
            /\ Len(rcs) = i
            /\ stage = (IF i = 1 THEN "step0" ELSE "step2")
            /\ "Final file" \notin printed

\* ------------------------------------------------------------------ C15
\* the lines of ScriptMix the monitor has taken out of the pipe
LinesRead == Len(ScriptMix) - Len(script) - Len(pipe)

\* last_pct after k lines of ScriptMix, for a duration of ten seconds
MixLastPct(k) ==
    IF k < 2 THEN RInt(-1)
    ELSE IF k < 4 THEN RInt(0)
    ELSE IF k < 6 THEN Rat(6, 5)
    ELSE RInt(100)

\* the percent texts of the updates made after k lines of ScriptMix
MixUpdateTexts(k) ==
    IF k < 2 THEN <<>>
    ELSE IF k < 4 THEN <<0>>
    ELSE IF k < 6 THEN <<0, 12>>
    ELSE <<0, 12, 1000>>

\* C15: whatever the notifier does with each of the calls, a run on the
\* same encoder reads the same lines, makes the same updates with the
\* same last_pct after each line, stops at the same line and returns
\* the exit status of the encoder; no call of the notifier raises
C15_NotifierNoInfluence ==
    Spawned =>
        /\ pc \in {"read", "wait", "done"}
        /\ last_pct = MixLastPct(LinesRead)
        /\ UpdateTexts = MixUpdateTexts(LinesRead)
        /\ LinesRead <= 7
        /\ (pc # "read" =>
               \/ LinesRead = 7
               \/ LinesRead = 6 /\ Len(script) = 2 /\ child = "exited")
        /\ (pc = "done" => ret = exitCode)

\* a run has returned after the notifier served some calls, was absent
\* for an update and failed on the close
C15_Witness ==
    /\ Returned
    /\ Spawned
    /\ shown # {}
    /\ IsNone(notif_id)
    /\ closeOutcome = Some("error")
    /\ UpdateTexts = <<0, 12, 1000>>

\* ------------------------------------------------------------ time texts
\* A time text is a tuple of characters.
RAdd(x, y) == Rat(x.n * y.d + y.n * x.d, x.d * y.d)
RMax(x, y) == IF RLeq(x, y) THEN y ELSE x

\* x // 1 for a float
RFloor(x) == x.n \div x.d

\* round to the nearest integer, ties to even, as the f format does
RoundHalfEven(x) ==
    LET q == x.n \div x.d
        r == x.n % x.d
    IN  IF 2 * r > x.d THEN q + 1
        ELSE IF 2 * r < x.d THEN q
        ELSE IF q % 2 = 0 THEN q ELSE q + 1

RECURSIVE Pow10(_)
Pow10(k) == IF k = 0 THEN 1 ELSE 10 * Pow10(k - 1)

\* str.strip() for blanks
Strip(s) ==
    LET idx == {i \in 1..Len(s) : s[i] # " "}
    IN  IF idx = {} THEN <<>>
        ELSE SubSeq(s, CHOOSE i \in idx : \A j \in idx : i <= j,
                       CHOOSE i \in idx : \A j \in idx : j <= i)

\* ts.count(":")
CountColons(s) == Cardinality({i \in 1..Len(s) : s[i] = ":"})

\* ts.split(":")
RECURSIVE SplitColons(_)
SplitColons(s) ==
    IF CountColons(s) = 0 THEN <<s>>
    ELSE LET i == CHOOSE k \in 1..Len(s) : s[k] = ":" /\ \A j \in 1..(k - 1) : s[j] # ":"
         IN  <<SubSeq(s, 1, i - 1)>> \o SplitColons(SubSeq(s, i + 1, Len(s)))

\* float(text) for decimal notation: blanks around it, an optional sign,
\* digits with at most one point and at least one digit; anything else
\* raises ValueError, modelled as None
ParseFloat(s0) ==
    LET s == Strip(s0)
        signed == s # <<>> /\ Head(s) \in {"+", "-"}
        body == IF signed THEN Tail(s) ELSE s
        points == {i \in 1..Len(body) : body[i] = "."}
        digits == SelectSeq(body, LAMBDA c : c # ".")
        frac == IF points = {} THEN 0
                ELSE Len(body) - (CHOOSE i \in points : TRUE)
    IN  IF \/ digits = <<>>
           \/ Cardinality(points) > 1
           \/ \E i \in 1..Len(digits) : digits[i] \notin Digits
        THEN None
        ELSE LET v == Rat(DigitsValue(digits, 0), Pow10(frac))
             IN  Some(IF signed /\ Head(s) = "-" THEN RSub(RInt(0), v) ELSE v)

\* what a call of parse_time_to_seconds gives: a ValueError, None, or
\* the seconds
Raised == [err |-> TRUE, val |-> None]
Gave(v) == [err |-> FALSE, val |-> v]

\* ffmpeg_utils.py 105-132
ParseTimeToSeconds(ts0) ==
    LET ts == Strip(ts0)
        parts == [i \in 1..Len(SplitColons(ts)) |-> ParseFloat(SplitColons(ts)[i])]
    IN  IF ts = <<>> THEN Gave(None)
        ELSE IF \E i \in 1..Len(parts) : IsNone(parts[i]) THEN Raised
        ELSE IF Len(parts) = 1 THEN Gave(parts[1])
        ELSE IF Len(parts) = 2
             THEN Gave(Some(RAdd(RMul(Get(parts[1]), RInt(60)), Get(parts[2]))))
        ELSE IF Len(parts) = 3
             THEN Gave(Some(RAdd(RAdd(RMul(Get(parts[1]), RInt(3600)),
                                      RMul(Get(parts[2]), RInt(60))),
                                 Get(parts[3]))))
        ELSE Raised

\* ffmpeg_utils.py 135-149: the hours, the minutes and the thousandths
\* of the seconds field that the text HH:MM:SS.mmm shows
SecondsToHms(seconds) ==
    LET s == RMax(RInt(0), seconds)
        hh == RFloor(RDiv(s, RInt(3600)))
        mm == RFloor(RDiv(RMod(s, 3600), RInt(60)))
        ss == RSub(s, RInt(hh * 3600 + mm * 60))
    IN  [hh |-> hh, mm |-> mm, ms |-> RoundHalfEven(RMul(ss, RInt(1000)))]

\* a number in at least w digits
Pad(n, w) ==
    IF w >= 3 /\ n < 100 THEN (IF n < 10 THEN "00" ELSE "0") \o ToString(n)
    ELSE IF w >= 2 /\ n < 10 THEN "0" \o ToString(n)
    ELSE ToString(n)

\* f"{hh:02d}:{mm:02d}:{ss:06.3f}"
HmsText(h) ==
    Pad(h.hh, 2) \o ":" \o Pad(h.mm, 2) \o ":" \o Pad(h.ms \div 1000, 2)
        \o "." \o Pad(h.ms % 1000, 3)

\* the seconds ffmpeg reads in an HH:MM:SS.mmm argument
HmsSeconds(h) == RAdd(RInt(h.hh * 3600 + h.mm * 60), Rat(h.ms, 1000))

\* ------------------------------------------------------------ trim_video
\* the time texts a user gives
TimeTexts ==
    { <<>>, <<" ">>, <<"a", "b", "c">>, <<"-", "5">>, <<"0">>, <<"2", ".", "5">>,
      <<"1", "0">>, <<"1", ":", "3", "0">>, <<"0", ":", "0", ":", "7">>,
      <<"1", ":", "2", ":", "3", ":", "4">> }

\* what one rofi prompt gives: rofi is not installed, it ends with a
\* non-zero status, or it prints a text
RofiOutcomes ==
    { [rc |-> "missing", out |-> <<>>], [rc |-> "cancel", out |-> <<>>] }
      \cup { [rc |-> "ok", out |-> x] : x \in TimeTexts }

\* what probe_duration gives for the input file, in seconds; 0 is unknown
FileDurs == {RInt(0), RInt(8)}

\* lines 183-192: the command of trim_video
TrimCmd(ss, len) ==
    <<"ffmpeg", "-hide_banner", "-y", "-ss", HmsText(ss), "-i", "in.mp4",
      "-t", HmsText(len), "-c", "copy", "out.mp4">>

\* not args.start, for an option that is absent or the empty text
NotGiven(a) == IsNone(a) \/ Get(a) = <<>>

\* the locals of main when it ends before the call or makes the call
TrimLocals(how, s, e, ss, es, fd, seek, len) ==
    [how |-> how, start_str |-> s, end_str |-> e, start_seconds |-> ss,
     end_seconds |-> es, file_dur |-> fd, seek |-> seek, len |-> len]

\* main ends before the call with an exit status
TrimEnds(code, locals) ==
    /\ progExit' = Some(code)
    /\ trim' = Some(locals)
    /\ UNCHANGED <<monitor, stage>>

\* trim_video.py 137-199: the times are read from the prompts or from the
\* command line, parsed and validated, and the monitor is called
trim_video_prepare ==
    /\ tool = "trim_video"
    /\ stage = "args"
    /\ progExit = None
    /\ \E r1 \in RofiOutcomes, r2 \in RofiOutcomes, fd \in FileDurs, n \in 0..1 :
        LET a == Get(args)
            v1 == Strip(r1.out)
            v2 == Strip(r2.out)
            start_str == IF a.interactive THEN v1 ELSE Get(a.start)
            end_str == IF a.interactive THEN v2 ELSE Get(a.end)
            p1 == ParseTimeToSeconds(start_str)
            p2 == ParseTimeToSeconds(end_str)
            start_seconds == Get(p1.val)
            end_seconds == Get(p2.val)
            duration_seconds == RSub(end_seconds, start_seconds)
            seek == SecondsToHms(start_seconds)
            len == SecondsToHms(duration_seconds)
        IN  IF a.interactive /\ r1.rc = "missing"
            THEN TrimEnds(1, TrimLocals("no rofi", None, None, None, None, fd, None, None))
            ELSE IF a.interactive /\ (r1.rc = "cancel" \/ v1 = <<>>)
            THEN TrimEnds(0, TrimLocals("cancelled", None, None, None, None, fd, None, None))
            ELSE IF a.interactive /\ r2.rc = "missing"
            THEN TrimEnds(1, TrimLocals("no rofi", Some(v1), None, None, None, fd, None, None))
            ELSE IF a.interactive /\ (r2.rc = "cancel" \/ v2 = <<>>)
            THEN TrimEnds(0, TrimLocals("cancelled", Some(v1), None, None, None, fd, None, None))
            ELSE IF ~a.interactive /\ (NotGiven(a.start) \/ NotGiven(a.end))
            THEN TrimEnds(2, TrimLocals("usage", a.start, a.end, None, None, fd, None, None))
            ELSE IF p1.err \/ p2.err
            THEN TrimEnds(1, TrimLocals("ValueError", Some(start_str), Some(end_str),
                                        None, None, fd, None, None))
            ELSE IF IsNone(p1.val) \/ IsNone(p2.val)
            THEN TrimEnds(0, TrimLocals("empty", Some(start_str), Some(end_str),
                                        p1.val, p2.val, fd, None, None))
            ELSE IF RLeq(end_seconds, start_seconds)
            THEN TrimEnds(1, TrimLocals("end <= start", Some(start_str), Some(end_str),
                                        p1.val, p2.val, fd, None, None))
            ELSE IF RLt(RInt(0), fd) /\ RLt(fd, start_seconds)
            THEN TrimEnds(1, TrimLocals("start > file", Some(start_str), Some(end_str),
                                        p1.val, p2.val, fd, None, None))
            ELSE /\ trim' = Some(TrimLocals("call", Some(start_str), Some(end_str),
                                            p1.val, p2.val, fd, Some(seek), Some(len)))
                 /\ Call(TrimCmd(seek, len), duration_seconds, n)
                 /\ stage' = "run"
                 /\ UNCHANGED progExit
    /\ UNCHANGED <<args, tool, files, printed, rcs, shown, fresh>>

\* the command lines of trim_video: with --interactive the options only
\* prefill the prompts
TrimArgs ==
    { [interactive |-> TRUE, start |-> None, end |-> None] }
      \cup { [interactive |-> FALSE, start |-> s, end |-> e] :
               s \in {None} \cup {Some(x) : x \in TimeTexts},
               e \in {None} \cup {Some(x) : x \in TimeTexts} }

InitTrim ==
    \E a \in TrimArgs :
        /\ args = Some(a)
        /\ trim = None
        /\ tool = "trim_video"
        /\ stage = "args"
        /\ files = {}
        /\ progExit = None
        /\ printed = {}
        /\ rcs = <<>>
        /\ pc = "off"
        /\ cmd = <<>>
        /\ full_cmd = None
        /\ closeOutcome = None
        /\ duration = RInt(0)
        /\ child = "none"
        /\ exitCode = None
        /\ script = <<>>
        /\ toWrite = 0
        /\ pipe = <<>>
        /\ last_pct = InitialLastPct
        /\ notif_id = None
        /\ ms = None
        /\ pct = None
        /\ trace = <<>>
        /\ stderr = <<>>
        /\ ret = None
        /\ shown = {}
        /\ fresh = 1

NextTrim ==
    \/ Next
    \/ trim_video_prepare
    \/ trim_video_main
    \/ UncaughtError

SpecTrim == InitTrim /\ [][NextTrim]_vars

\* ------------------------------------------------------------------ C21
\* ffmpeg has been run by trim_video: the monitor has reached Popen
TrimLaunched == tool = "trim_video" /\ ~IsNone(full_cmd)

\* main has read its times and has ended or made the call
TrimDecided == tool = "trim_video" /\ ~IsNone(trim)

\* both time texts are known and parse to seconds
TrimBothParse ==
    /\ TrimDecided
    /\ ~IsNone(Get(trim).start_str)
    /\ ~IsNone(Get(trim).end_str)
    /\ ~ParseTimeToSeconds(Get(Get(trim).start_str)).err
    /\ ~ParseTimeToSeconds(Get(Get(trim).end_str)).err
    /\ ~IsNone(ParseTimeToSeconds(Get(Get(trim).start_str)).val)
    /\ ~IsNone(ParseTimeToSeconds(Get(Get(trim).end_str)).val)

\* the requested start and end, in seconds
TrimStart == Get(ParseTimeToSeconds(Get(Get(trim).start_str)).val)
TrimEnd == Get(ParseTimeToSeconds(Get(Get(trim).end_str)).val)

\* a time text was given and is empty once stripped
TrimSomeEmpty ==
    /\ TrimDecided
    /\ \/ ~IsNone(Get(trim).start_str) /\ Strip(Get(Get(trim).start_str)) = <<>>
       \/ ~IsNone(Get(trim).end_str) /\ Strip(Get(Get(trim).end_str)) = <<>>

\* ffmpeg is run only for two times that parse, with end > start and a
\* start within a known file duration
C21_LaunchOnlyValid ==
    TrimLaunched =>
        /\ TrimBothParse
        /\ RLt(TrimStart, TrimEnd)
        /\ (Get(trim).file_dur = RInt(0) \/ RLeq(TrimStart, Get(trim).file_dur))

\* end <= start, or a start beyond a known file duration: exit 1, no ffmpeg
C21_InvalidExitsOne ==
    (TrimBothParse /\ (\/ RLeq(TrimEnd, TrimStart)
                       \/ (RLt(RInt(0), Get(trim).file_dur)
                             /\ RLt(Get(trim).file_dur, TrimStart)))) =>
        progExit = Some(1) /\ IsNone(full_cmd)

\* a cancelled prompt, or an empty time next to one that parses or is
\* empty: exit 0, no ffmpeg
C21_CancelExitsZero ==
    (TrimDecided /\ (\/ Get(trim).how = "cancelled"
                     \/ Get(trim).how = "empty")) =>
        progExit = Some(0) /\ IsNone(full_cmd)

\* an empty time of any origin: exit 0, no ffmpeg
C21_EmptyExitsZero ==
    TrimSomeEmpty => progExit = Some(0) /\ IsNone(full_cmd)

\* the -ss and -t arguments add up to the requested end
C21_ArgsDescribeInterval ==
    TrimLaunched =>
        RAdd(HmsSeconds(Get(Get(trim).seek)), HmsSeconds(Get(Get(trim).len))) = TrimEnd

\* C21: trim_video runs ffmpeg only for a valid segment, exits 1 for an
\* invalid one and 0 for a cancelled or empty one, both without running
\* ffmpeg, and the -ss and -t arguments of a run describe the requested
\* interval: seek position plus length is the requested end
C21_TrimValidSegment ==
    /\ C21_LaunchOnlyValid
    /\ C21_InvalidExitsOne
    /\ C21_CancelExitsZero
    /\ C21_ArgsDescribeInterval
====
